---- MODULE Spec2Model ----
(***************************************************************************)
(* Portfolio Risk Analyzer (src/risk_app_v2.py): the Streamlit script as a *)
(* state machine.  One script run renders the rows of                      *)
(* st.session_state.tickers, builds the portfolio list and, when the       *)
(* Analyze button was pressed, scores every ticker and reports.            *)
(*                                                                         *)
(* Units.  Python floats are modelled by exact integers:                   *)
(*   - a sub-score is an integer number of percent (the raw inputs below   *)
(*     are chosen so that x / scale * 100 is an integer);                  *)
(*   - a weight is in hundredths (0.14 is 14), so a weighted contribution  *)
(*     and every score rounded to 2 decimals is in hundredths of a percent *)
(*     (46.25 is 4625);                                                    *)
(*   - a dollar amount is in tenths of a dollar ("1.5" is 15);             *)
(*   - margin is in hundredths, vol in thousandths, dd in hundredths,      *)
(*     beta in tenths, volume in units of 100,000 shares.                  *)
(* An optional value (Python None or a value) is the empty set or a        *)
(* singleton.                                                              *)
(*                                                                         *)
(* Spec is the script as written.  SpecBound is the script with the names  *)
(* vol, dd and beta, which the scores dict reads and nothing assigns,      *)
(* supplied from the fetched data.  SpecInterpret applies interpret_risk   *)
(* to every score on the two-decimal grid.                                 *)
(***************************************************************************)
EXTENDS Integers, Sequences, FiniteSets, TLC

VARIABLES
    globals,       \* the names bound in the script's module namespace
    tickers,       \* st.session_state.tickers: sequence of [name, amount] texts
    pc,            \* "idle" (waiting for the user), "rows", "score", "report"
    i,             \* index of the row the input loop is at (1-based)
    event,         \* what the user did to start this run
    portfolio,     \* the list built by the input loop: <<ticker, amount>>
    total_amount,  \* line 137
    risks,         \* line 136/142: <<ticker, r, amt>>
    j,             \* index of the portfolio entry the scoring loop is at
    display,       \* the elements this run has put on the page
    fetches,       \* per portfolio entry, how its first data fetch ended
    lastCall,      \* the latest calculate_components call: data and result
    arg,           \* the score handed to interpret_risk (SpecInterpret)
    label          \* the label it returned

vars == <<globals, tickers, pc, i, event, portfolio, total_amount, risks, j,
          display, fetches, lastCall, arg, label>>

----------------------------------------------------------------------------
(* Bounds of the model *)

MaxRows == 2

----------------------------------------------------------------------------
(* Optional values and small helpers *)

None == {}
Some(v) == {v}
Val(x) == CHOOSE v \in x : TRUE

\* Python's "x or d": d when x is None or 0
OrElse(x, d) == IF x = None \/ x = Some(0) THEN d ELSE Val(x)

Abs(x) == IF x < 0 THEN -x ELSE x

RECURSIVE SumSeq(_)
SumSeq(s) == IF s = <<>> THEN 0 ELSE Head(s) + SumSeq(Tail(s))

\* round(n / d, 0) for d > 0, ties to even, as Python rounds an exact tie
RoundDiv(n, d) ==
    LET q == n \div d
        r == n % d
    IN  IF 2 * r < d THEN q
        ELSE IF 2 * r > d THEN q + 1
        ELSE IF q % 2 = 0 THEN q ELSE q + 1

----------------------------------------------------------------------------
(* Texts typed into the widgets *)

Digits == {"0", "1", "2", "3", "4", "5", "6", "7", "8", "9"}

DigitVal(c) ==
    CASE c = "0" -> 0 [] c = "1" -> 1 [] c = "2" -> 2 [] c = "3" -> 3
      [] c = "4" -> 4 [] c = "5" -> 5 [] c = "6" -> 6 [] c = "7" -> 7
      [] c = "8" -> 8 [] c = "9" -> 9

\* str.upper() on the letters the model uses
UpperChar(c) ==
    CASE c = "a" -> "A" [] c = "b" -> "B" [] OTHER -> c

Upper(s) == [k \in 1..Len(s) |-> UpperChar(s[k])]

\* amount.replace(".", "", 1): the text without its first "."
ReplaceFirstDot(s) ==
    IF \E k \in 1..Len(s) : s[k] = "."
    THEN LET p == CHOOSE k \in 1..Len(s) :
                      s[k] = "." /\ \A m \in 1..(k-1) : s[m] # "."
         IN  SubSeq(s, 1, p - 1) \o SubSeq(s, p + 1, Len(s))
    ELSE s

\* str.isdigit(): non-empty and every character a digit
IsDigit(s) == s # <<>> /\ \A k \in 1..Len(s) : s[k] \in Digits

RECURSIVE DigitsValue(_)
DigitsValue(s) ==
    IF s = <<>> THEN 0
    ELSE 10 * DigitsValue(SubSeq(s, 1, Len(s) - 1)) + DigitVal(s[Len(s)])

\* float(amount) in tenths of a dollar, for a text of digits with at most one
\* "." followed by at most one digit (the texts of AmountTexts)
Float(s) ==
    IF \E k \in 1..Len(s) : s[k] = "."
    THEN LET p == CHOOSE k \in 1..Len(s) : s[k] = "."
         IN  10 * DigitsValue(SubSeq(s, 1, p - 1))
               + DigitsValue(SubSeq(s, p + 1, Len(s)))
    ELSE 10 * DigitsValue(s)

NameTexts == {<<>>, <<"a", "b">>, <<"M">>}

AmountTexts ==
    {<<>>, <<"0">>, <<"0", ".", "0">>, <<"1">>, <<"3">>, <<"-", "1">>}

BlankRow == [name |-> <<>>, amount |-> <<>>]

----------------------------------------------------------------------------
(* Risk functions *)

Centi == 100

NA == "N/A"

interpret_risk_lt(score) ==
    IF score = None THEN NA
    ELSE LET s == Val(score) IN
         IF s <= 20 * Centi THEN "Extremely Low Risk"
         ELSE IF s <= 33 * Centi THEN "Very Low Risk"
         ELSE IF s <= 45 * Centi THEN "Low Risk"
         ELSE IF s < 55 * Centi THEN "Moderate Risk"
         ELSE IF s <= 67 * Centi THEN "High Risk"
         ELSE IF s <= 80 * Centi THEN "Very High Risk"
         ELSE "Extremely High Risk"

interpret_risk(score) ==
    IF score = None THEN NA
    ELSE LET s == Val(score) IN
         IF s <= 20 * Centi THEN "Extremely Low Risk"
         ELSE IF s <= 33 * Centi THEN "Very Low Risk"
         ELSE IF s <= 45 * Centi THEN "Low Risk"
         ELSE IF s <= 55 * Centi THEN "Moderate Risk"
         ELSE IF s <= 67 * Centi THEN "High Risk"
         ELSE IF s <= 80 * Centi THEN "Very High Risk"
         ELSE "Extremely High Risk"

risk_color(score) ==
    IF score = None THEN "#ecf0f1"
    ELSE LET s == Val(score) IN
         IF s <= 20 * Centi THEN "rgba(52, 152, 219, 0.25)"
         ELSE IF s <= 33 * Centi THEN "rgba(93, 173, 226, 0.25)"
         ELSE IF s <= 45 * Centi THEN "rgba(46, 204, 113, 0.25)"
         ELSE IF s <= 55 * Centi THEN "rgba(244, 208, 63, 0.25)"
         ELSE IF s <= 67 * Centi THEN "rgba(230, 126, 34, 0.25)"
         ELSE IF s <= 80 * Centi THEN "rgba(231, 76, 60, 0.25)"
         ELSE "rgba(0, 0, 0, 0.25)"

\* The keys of the weights and scores dicts, in insertion order
Indicators ==
    <<"PE", "PS", "D/E", "Margin", "Dividend", "Volatility", "Drawdown",
      "Beta", "Liquidity", "ESG">>

\* weights, in hundredths
weights == <<14, 10, 10, 10, 5, 16, 12, 9, 9, 5>>

PEScale == 60
PSScale == 15
DEScale == 300
MarginOne == 100
PEDefault == 60
PSDefault == 15
DEDefault == 300
MarginDefault == 20
VolScale == 50
DDScale == 30
BetaScale == 20
BetaDefault == 10
RefVolume == 10
ESGScale == 100
ESGDefault == 50
Hundred == 100

\* score(x, scale) = min(x / scale, 1) * 100, in percent.  The division is
\* exact for the raw values of Profiles.
score(x, scale) ==
    LET q == (x * Hundred) \div scale
    IN  IF q < Hundred THEN q ELSE Hundred

\* The names calculate_components can resolve without the module namespace:
\* its parameters and the locals assigned on lines 92-116
LocalNames ==
    {"ticker", "period", "stock", "hist", "spy", "close", "volume", "returns",
     "spy_returns", "pe", "ps", "dy", "dte", "margin", "avg_volume", "esg",
     "weights", "score"}

\* The names the script binds at module level before the Analyze block runs
ModuleNames ==
    {"st", "yf", "np", "plt", "add_row", "remove_row", "portfolio", "i",
     "entry", "cols", "name", "amount", "remove", "selected_period",
     "interpret_risk", "risk_color", "volatility", "drawdown", "beta_calc",
     "calculate_components"}

\* The three names the scores dict reads (lines 123-125) that no line of the
\* script assigns: reading one raises NameError, which line 132 catches
MarketNames == {"vol", "dd", "beta"}

Bound(n, g) == n \in LocalNames \cup g

\* What the market-data collaborator returns for one call.  fetch: "raise"
\* (history() or info raised), "empty" (hist.empty), "spyempty" (spy.empty),
\* "ok".  esgKind: "absent" (no esgScores key), "none" (esgScores is None),
\* "nokey" (a dict without totalEsg), "value".  vol, dd, beta: what
\* volatility(returns), drawdown(close) and beta_calc(returns, spy_returns)
\* give for the history.
Profile(fetch, pe, ps, dy, dte, margin, volume, esgKind, totalEsg, vol, dd, beta) ==
    [fetch |-> fetch, pe |-> pe, ps |-> ps, dy |-> dy, dte |-> dte,
     margin |-> margin, volume |-> volume, esgKind |-> esgKind,
     totalEsg |-> totalEsg, vol |-> vol, dd |-> dd, beta |-> beta]

PRaise   == Profile("raise", None, None, None, None, None, 0, "absent", 0, 0, 0, None)
PEmpty   == Profile("empty", None, None, None, None, None, 0, "absent", 0, 0, 0, None)
PSpyEmpty == Profile("spyempty", Some(30), Some(3), Some(2), Some(150), Some(20), 20, "value", 25, 25, -15, Some(10))
PFull    == Profile("ok", Some(30), Some(3), Some(2), Some(150), Some(20), 20, "value", 25, 25, -15, Some(10))
PLow     == Profile("ok", Some(12), Some(3), Some(1), Some(60), Some(80), 50, "nokey", 0, 10, -6, Some(4))
PMissing == Profile("ok", None, None, None, None, None, 0, "absent", 0, 10, -3, None)
PNegative == Profile("ok", Some(-600), Some(3), Some(0), Some(-30), Some(150), 20, "value", 25, 25, -15, Some(10))
PEsgNone == Profile("ok", Some(30), Some(3), Some(2), Some(150), Some(20), 20, "none", 0, 25, -15, Some(10))

Profiles == {PRaise, PEmpty, PSpyEmpty, PFull, PLow, PMissing, PNegative, PEsgNone}

HasHistory(d) == d.fetch = "ok"

\* Lines 102-108: the fallbacks
pe_of(d) == OrElse(d.pe, PEDefault)
ps_of(d) == OrElse(d.ps, PSDefault)
dte_of(d) == OrElse(d.dte, DEDefault)
margin_of(d) == OrElse(d.margin, MarginDefault)
avg_volume_of(d) == IF d.volume = 0 THEN RefVolume ELSE d.volume
esg_of(d) == IF d.esgKind = "value" THEN d.totalEsg ELSE ESGDefault

\* Lines 118-127: the sub-score of the k-th entry of the scores dict before
\* its weight, or None when evaluating the entry raises (NameError)
SubScore(k, d, g) ==
    CASE k = 1 -> Some(score(pe_of(d), PEScale))
      [] k = 2 -> Some(score(ps_of(d), PSScale))
      [] k = 3 -> Some(score(dte_of(d), DEScale))
      [] k = 4 -> Some(score(MarginOne - margin_of(d), MarginOne))
      [] k = 5 -> Some(IF d.dy = None \/ d.dy = Some(0) THEN Hundred ELSE 0)
      [] k = 6 -> IF Bound("vol", g) THEN Some(score(d.vol, VolScale)) ELSE None
      [] k = 7 -> IF Bound("dd", g) THEN Some(score(Abs(d.dd), DDScale)) ELSE None
      [] k = 8 -> IF Bound("beta", g)
                  THEN Some(score(OrElse(d.beta, BetaDefault), BetaScale))
                  ELSE None
      [] k = 9 -> Some(score(RefVolume, avg_volume_of(d)))
      [] k = 10 -> Some(score(esg_of(d), ESGScale))

\* Whether lines 92-108 complete without returning or raising
ReachesScores(d) == d.fetch = "ok" /\ d.esgKind # "none"

\* The sub-scores the call evaluates, in dict order, up to the first entry
\* that raises
EvaluatedSubScores(d, g) ==
    IF ~ReachesScores(d) THEN <<>>
    ELSE LET bad == {k \in 1..Len(Indicators) : SubScore(k, d, g) = None}
             n == IF bad = {} THEN Len(Indicators)
                  ELSE (CHOOSE k \in bad : \A m \in bad : k <= m) - 1
         IN  [k \in 1..n |-> Val(SubScore(k, d, g))]

NoResult == [r |-> None, scores |-> <<>>]

\* calculate_components: [r, scores] with r the total in hundredths of a
\* percent or None, scores the weighted contributions in dict order
calculate_components(d, g) ==
    IF d.fetch = "raise" THEN NoResult
    ELSE IF d.fetch \in {"empty", "spyempty"} THEN NoResult
    ELSE IF d.esgKind = "none" THEN NoResult
    ELSE LET subs == EvaluatedSubScores(d, g) IN
         IF Len(subs) < Len(Indicators) THEN NoResult
         ELSE LET scores == [k \in 1..Len(Indicators) |-> subs[k] * weights[k]]
              IN  [r |-> Some(SumSeq(scores)), scores |-> scores]

----------------------------------------------------------------------------
(* Session rows *)

add_row(rows) == Append(rows, BlankRow)

\* A pop that ignores its index and drops the last entry
remove_row_last(rows, index) == SubSeq(rows, 1, Len(rows) - 1)

\* list.pop(index), index counted from 1 here
remove_row(rows, index) ==
    SubSeq(rows, 1, index - 1) \o SubSeq(rows, index + 1, Len(rows))

\* Line 57: the row goes into the portfolio
Accepted(name, amount) == name # <<>> /\ IsDigit(ReplaceFirstDot(amount))

----------------------------------------------------------------------------
(* Analyze Risk block *)

RECURSIVE SumAmounts(_)
SumAmounts(p) == IF p = <<>> THEN 0 ELSE Head(p)[2] + SumAmounts(Tail(p))

RECURSIVE SumRiskAmounts(_)
SumRiskAmounts(rs) ==
    IF rs = <<>> THEN 0 ELSE Head(rs)[2] * Head(rs)[3] + SumRiskAmounts(Tail(rs))

\* Line 145: round(sum(r * a) / total_amount, 2), in hundredths of a percent
portfolio_risk_of(rs, total) == RoundDiv(SumRiskAmounts(rs), total)

\* Lines 161-162: risk * amt / total_amount shown with one decimal, in tenths
\* of a percent
contribution_of(risk, amt, total) == RoundDiv(risk * amt, total * 10)

\* Line 164: sorted(scores.items(), key=lambda x: x[1], reverse=True)[:3];
\* the sort is stable, so equal values keep dict order
RECURSIVE TopOf(_, _, _)
TopOf(scores, left, n) ==
    IF n = 0 \/ left = {} THEN <<>>
    ELSE LET best == CHOOSE k \in left :
                         \A m \in left : scores[m] < scores[k]
                                          \/ (scores[m] = scores[k] /\ k <= m)
         IN  <<<<Indicators[best], scores[best]>>>>
               \o TopOf(scores, left \ {best}, n - 1)

top_scores(scores) == TopOf(scores, DOMAIN scores, 3)

Element(kind, ticker, risk, contribution, scores) ==
    [kind |-> kind, ticker |-> ticker, risk |-> risk,
     label |-> interpret_risk(risk), color |-> risk_color(risk),
     contribution |-> contribution, scores |-> scores,
     top |-> top_scores(scores)]

Rule == Element("rule", <<>>, None, 0, <<>>)
Exception == Element("exception", <<>>, None, 0, <<>>)

\* Lines 144-155
AggregateBox(rs, total) ==
    Element("aggregate", <<>>, Some(portfolio_risk_of(rs, total)), 0, <<>>)

\* Lines 157-176 for one entry of risks; d is the data of the second call
TickerSection(entry, total, d, g) ==
    Element("ticker", entry[1], Some(entry[2]),
            contribution_of(entry[2], entry[3], total),
            calculate_components(d, g).scores)

\* Lines 144-176: what the block shows after the scoring loop
Shown(rs, total, second, g) ==
    IF rs = <<>> THEN <<>>
    ELSE IF total = 0 THEN <<Exception>>
    ELSE <<AggregateBox(rs, total)>>
           \o [k \in 1..Len(rs) |-> TickerSection(rs[k], total, second[k], g)]

----------------------------------------------------------------------------
(* The script as a state machine *)

NoEvent == [kind |-> "none", row |-> 0, field |-> "name", text |-> <<>>]
NoCall == [d |-> PRaise, called |-> FALSE, res |-> NoResult]

FreshRun(ev, rows) ==
    /\ pc' = "rows"
    /\ i' = 1
    /\ event' = ev
    /\ tickers' = rows
    /\ portfolio' = <<>>
    /\ total_amount' = 0
    /\ risks' = <<>>
    /\ j' = 1
    /\ display' = <<>>
    /\ fetches' = <<>>
    /\ lastCall' = NoCall
    /\ UNCHANGED <<globals, arg, label>>

Program(g) ==
    /\ globals = g
    /\ tickers = <<BlankRow>>
    /\ pc = "rows"
    /\ i = 1
    /\ event = NoEvent
    /\ portfolio = <<>>
    /\ total_amount = 0
    /\ risks = <<>>
    /\ j = 1
    /\ display = <<>>
    /\ fetches = <<>>
    /\ lastCall = NoCall

\* The script as written
Init == Program(ModuleNames) /\ arg = None /\ label = NA

\* The script run in a namespace that also binds vol, dd and beta, to what
\* the helpers of lines 83-88 compute from the fetched history: the scores
\* expression with its free names supplied, and the Analyze block behind it
InitBound == Program(ModuleNames \cup MarketNames) /\ arg = None /\ label = NA

\* on_click=add_row, then the rerun
ClickAdd ==
    /\ pc = "idle"
    /\ Len(tickers) < MaxRows
    /\ FreshRun([NoEvent EXCEPT !.kind = "add"], add_row(tickers))

\* The user changes one text input; the rerun's text_input returns the text
EditText ==
    /\ pc = "idle"
    /\ \E k \in 1..Len(tickers) :
          \/ \E t \in NameTexts :
                FreshRun([kind |-> "edit", row |-> k, field |-> "name", text |-> t], tickers)
          \/ \E t \in AmountTexts :
                FreshRun([kind |-> "edit", row |-> k, field |-> "amount", text |-> t], tickers)

\* The user presses the remove button of row k
ClickRemove ==
    /\ pc = "idle"
    /\ \E k \in 1..Len(tickers) :
          FreshRun([NoEvent EXCEPT !.kind = "remove", !.row = k], tickers)

\* The user presses Analyze Risk
ClickAnalyze ==
    /\ pc = "idle"
    /\ FreshRun([NoEvent EXCEPT !.kind = "analyze"], tickers)

WidgetText(k, field, stored) ==
    IF event.kind = "edit" /\ event.row = k /\ event.field = field
    THEN event.text ELSE stored

\* Lines 47-58: one iteration of the input loop
RenderRow ==
    /\ pc = "rows"
    /\ i <= Len(tickers)
    /\ LET name == WidgetText(i, "name", tickers[i].name)
           amount == WidgetText(i, "amount", tickers[i].amount)
           remove == event.kind = "remove" /\ event.row = i
       IN  IF remove
           THEN FreshRun(NoEvent, remove_row(tickers, i))
           ELSE /\ tickers' = [tickers EXCEPT ![i] = [name |-> name, amount |-> amount]]
                /\ portfolio' = IF Accepted(name, amount)
                                THEN Append(portfolio, <<Upper(name), Float(amount)>>)
                                ELSE portfolio
                /\ i' = i + 1
                /\ UNCHANGED <<globals, pc, event, total_amount, risks, j,
                               display, fetches, lastCall, arg, label>>

\* Lines 134-137: the button was pressed and the portfolio is not empty
BeginAnalyze ==
    /\ pc = "rows"
    /\ i > Len(tickers)
    /\ event.kind = "analyze" /\ portfolio # <<>>
    /\ display' = <<Rule>>
    /\ risks' = <<>>
    /\ total_amount' = SumAmounts(portfolio)
    /\ j' = 1
    /\ pc' = "score"
    /\ UNCHANGED <<globals, tickers, i, event, portfolio, fetches, lastCall,
                   arg, label>>

\* Line 134 false: the run ends after the static text
FinishRun ==
    /\ pc = "rows"
    /\ i > Len(tickers)
    /\ ~(event.kind = "analyze" /\ portfolio # <<>>)
    /\ pc' = "idle"
    /\ UNCHANGED <<globals, tickers, i, event, portfolio, total_amount, risks,
                   j, display, fetches, lastCall, arg, label>>

\* Lines 139-142: one iteration of the scoring loop
ScoreTicker ==
    /\ pc = "score"
    /\ j <= Len(portfolio)
    /\ \E d \in Profiles :
          LET res == calculate_components(d, globals)
          IN  /\ risks' = IF res.r # None
                          THEN Append(risks, <<portfolio[j][1], Val(res.r), portfolio[j][2]>>)
                          ELSE risks
              /\ fetches' = Append(fetches, d.fetch)
              /\ lastCall' = [d |-> d, called |-> TRUE, res |-> res]
    /\ j' = j + 1
    /\ UNCHANGED <<globals, tickers, pc, i, event, portfolio, total_amount,
                   display, arg, label>>

\* Lines 144-176, then the static text: the aggregate box and one section
\* per scored ticker, each with its own second call
Report ==
    /\ pc = "score"
    /\ j > Len(portfolio)
    /\ \E second \in [1..Len(risks) -> Profiles] :
          /\ display' = display \o Shown(risks, total_amount, second, globals)
          /\ lastCall' = IF risks = <<>> \/ total_amount = 0 THEN lastCall
                         ELSE LET d == second[Len(risks)]
                              IN  [d |-> d, called |-> TRUE,
                                   res |-> calculate_components(d, globals)]
    /\ pc' = "idle"
    /\ UNCHANGED <<globals, tickers, i, event, portfolio, total_amount, risks,
                   j, fetches, arg, label>>

Next ==
    \/ ClickAdd
    \/ EditText
    \/ ClickRemove
    \/ ClickAnalyze
    \/ RenderRow
    \/ BeginAnalyze
    \/ FinishRun
    \/ ScoreTicker
    \/ Report

Spec == Init /\ [][Next]_vars

SpecBound == InitBound /\ [][Next]_vars

----------------------------------------------------------------------------
(* interpret_risk applied to every score on the two-decimal grid *)

Unapplied == "?"

ScoreInputs == {None} \cup {Some(s) : s \in 0..(100 * Centi)}

InitInterpret ==
    /\ Program(ModuleNames)
    /\ arg \in ScoreInputs
    /\ label = Unapplied

ApplyInterpret ==
    /\ label = Unapplied
    /\ label' = interpret_risk(arg)
    /\ UNCHANGED <<globals, tickers, pc, i, event, portfolio, total_amount,
                   risks, j, display, fetches, lastCall, arg>>

SpecInterpret == InitInterpret /\ [][ApplyInterpret]_vars

----------------------------------------------------------------------------
(* Properties *)

AnalyzeDone == pc = "idle" /\ event.kind = "analyze" /\ portfolio # <<>>

\* C1: whenever the collaborator returned a non-empty history (and a
\* non-empty benchmark history), calculate_components returned a numeric
\* score with a ten-entry breakdown, whatever fundamentals are missing.
C1_ScoreWheneverHistory ==
    (lastCall.called /\ HasHistory(lastCall.d))
        => /\ lastCall.res.r # None
           /\ Len(lastCall.res.scores) = Len(Indicators)

C3_SubScoresInRange ==
    lastCall.called
        => \A k \in DOMAIN EvaluatedSubScores(lastCall.d, globals) :
              /\ 0 <= EvaluatedSubScores(lastCall.d, globals)[k]
              /\ EvaluatedSubScores(lastCall.d, globals)[k] <= Hundred

C5_Labels ==
    <<"Extremely Low Risk", "Very Low Risk", "Low Risk", "Moderate Risk",
      "High Risk", "Very High Risk", "Extremely High Risk">>

C5_Thresholds == <<20, 33, 45, 55, 67, 80>>

\* The rank of a score: one more than the number of thresholds below it
C5_Rank(s) ==
    1 + Cardinality({k \in 1..Len(C5_Thresholds) : s > C5_Thresholds[k] * Centi})

\* C5: interpret_risk gives a score in [0, 100] the label whose rank is one
\* more than the number of thresholds 20, 33, 45, 55, 67, 80 strictly below
\* the score (so exactly one of the seven labels, without gap or overlap, and
\* monotone in the score), and gives "N/A" to None and to nothing else.
C5_InterpretByRank ==
    label # Unapplied
        => /\ arg = None => label = NA
           /\ arg # None => /\ label = C5_Labels[C5_Rank(Val(arg))]
                            /\ label # NA

\* C5 witness: the aggregate 65.00 of the spec's example has been labelled
\* "High Risk".
C5_Witness == arg = Some(65 * Centi) /\ label = "High Risk"

\* C6: every entry of the portfolio list has a strictly positive amount.
C6_PositiveAmounts ==
    \A k \in 1..Len(portfolio) : portfolio[k][2] > 0

\* Whether the first fetch for portfolio entry k raised or came back empty
C7_Failed(k) == fetches[k] \in {"raise", "empty"}

\* The portfolio without the entries whose fetch failed
C7_Rest == SelectSeq([k \in 1..Len(portfolio) |-> <<portfolio[k][1], portfolio[k][2], k>>],
                     LAMBDA e : ~C7_Failed(e[3]))

C8_NothingToShowNotice ==
    (AnalyzeDone /\ risks = <<>>)
        => /\ \A k \in 1..Len(display) : display[k].kind # "aggregate"
           /\ \E k \in 1..Len(display) : display[k].kind = "notice"

====
